---- MODULE Spec2Model ----
(***************************************************************************)
(* State-machine model of the four downloader scripts                      *)
(*   get_yt-video-by-id.py                      (script = "ytid")          *)
(*   get_ibm_yt-dlt.py                          (script = "ibm")           *)
(*   get_ibm_yt-dlt_gpt5_working_20251006.py    (script = "gpt5")          *)
(*   get_ibm_yt-dlt_claude45_20251006.py        (script = "claude45")      *)
(*                                                                         *)
(* The wrapped extraction library is the environment: every call into it   *)
(* (extract_info, download) ends in one of the outcomes of Outcomes,       *)
(* chosen nondeterministically at the call.  The formats the library       *)
(* reports for the remote video are an input fixed for the run.            *)
(*                                                                         *)
(* Environment assumptions: calls on the local file system and the console *)
(* (mkdir, glob, stat, open, print, logging) do not raise.  Python None is *)
(* the string None for optional strings and 0 for an optional height (the  *)
(* code only ever tests heights for truthiness or compares truthy ones).   *)
(* Codecs are strings; log-only fields of the diagnostics record           *)
(* (issues_found, metadata_extraction, test_selectors) are left out.       *)
(***************************************************************************)
EXTENDS Integers, Sequences, FiniteSets, TLC

\* Bound: the greatest number of formats the library reports for a video.
MaxFormats == 2

\* Python None, for optional strings.
None == "None"

\* Outcomes of one call into the library.
Outcomes == {"ok", "DownloadError", "Exception", "KeyboardInterrupt"}

Scripts == {"ytid", "ibm", "gpt5", "claude45"}
IbmScripts == {"ibm", "gpt5", "claude45"}

Fmt(i, h, v, a, e, p) ==
    [id |-> i, height |-> h, vcodec |-> v, acodec |-> a, ext |-> e, protocol |-> p]

\* The format entries info['formats'] may hold: HLS video-only (two
\* heights), HLS audio-only, HLS combined (same height as a video-only
\* one), and a progressive non-HLS format.
FormatPool ==
    { Fmt("hls-v720",  720,  "avc1", "none", "mp4",  "m3u8"),
      Fmt("hls-v1080", 1080, "avc1", "none", "mp4",  "m3u8"),
      Fmt("hls-a",     0,    "none", "mp4a", "mp4",  "m3u8"),
      Fmt("hls-c720",  720,  "avc1", "mp4a", "mp4",  "m3u8"),
      Fmt("http-480",  480,  "vp9",  "opus", "webm", "https") }

RECURSIVE SeqsUpTo(_, _)
\* All sequences over S of length at most n.
SeqsUpTo(S, n) ==
    IF n = 0 THEN { <<>> }
    ELSE LET shorter == SeqsUpTo(S, n - 1)
         IN  shorter \cup { Append(s, x) : s \in { t \in shorter : Len(t) = n - 1 }, x \in S }

FormatLists == SeqsUpTo(FormatPool, MaxFormats)

(***************************************************************************)
(* Python list helpers                                                     *)
(***************************************************************************)
Min(a, b) == IF a <= b THEN a ELSE b

\* s[:n]
Take(s, n) == SubSeq(s, 1, Min(n, Len(s)))

\* x in s
InSeq(x, s) == \E i \in 1..Len(s) : s[i] = x

\* str.startswith
StartsWith(s, p) == Len(s) >= Len(p) /\ SubSeq(s, 1, Len(p)) = p

\* A max that returns the last element of greatest height.
MaxByHeightLast(s) ==
    LET i == CHOOSE i \in 1..Len(s) :
                 /\ \A j \in 1..Len(s) : s[j].height <= s[i].height
                 /\ \A j \in (i + 1)..Len(s) : s[j].height < s[i].height
    IN  s[i]

\* max(s, key=lambda x: x['height'] or 0): the first element of greatest height.
MaxByHeight(s) ==
    LET i == CHOOSE i \in 1..Len(s) :
                 /\ \A j \in 1..Len(s) : s[j].height <= s[i].height
                 /\ \A j \in 1..(i - 1) : s[j].height < s[i].height
    IN  s[i]

RECURSIVE InsertDesc(_, _)
\* Insert x into s (sorted by height, descending) after every element of
\* height >= x.height.
InsertDesc(s, x) ==
    IF s = <<>> THEN <<x>>
    ELSE IF Head(s).height >= x.height THEN <<Head(s)>> \o InsertDesc(Tail(s), x)
    ELSE <<x>> \o s

RECURSIVE SortByHeightDesc(_)
\* list.sort(key=height, reverse=True): stable, descending.
SortByHeightDesc(s) ==
    IF s = <<>> THEN <<>>
    ELSE InsertDesc(SortByHeightDesc(SubSeq(s, 1, Len(s) - 1)), s[Len(s)])

RECURSIVE DedupFrom(_, _)
DedupFrom(s, seen) ==
    IF s = <<>> THEN <<>>
    ELSE IF Head(s) \in seen THEN DedupFrom(Tail(s), seen)
    ELSE <<Head(s)>> \o DedupFrom(Tail(s), seen \cup {Head(s)})

\* A plausible slip: no de-duplication at all.
DedupNone(s) == s

\* list(dict.fromkeys(s)): duplicates removed, first occurrence kept.
Dedup(s) == DedupFrom(s, {})

(***************************************************************************)
(* run_diagnostic_tests                                                    *)
(***************************************************************************)
\* format_id.startswith('hls-'); the gpt5 variant also looks at the protocol.
IsHls(variant, f) ==
    IF variant = "gpt5"
    THEN StartsWith(f.id, "hls-") \/ f.protocol \in {"m3u8", "m3u8_native"}
    ELSE StartsWith(f.id, "hls-")

\* One entry of diagnostics['available_formats'].
FormatInfo(variant, f) ==
    [id |-> f.id, ext |-> f.ext, height |-> f.height, vcodec |-> f.vcodec,
     acodec |-> f.acodec, is_hls |-> IsHls(variant, f)]

FormatDetails(variant, fmts) ==
    [i \in 1..Len(fmts) |-> FormatInfo(variant, fmts[i])]

\* The diagnostics dict as run_diagnostic_tests creates it.
InitialDiagnostics ==
    [url_accessible |-> FALSE, format_detection |-> FALSE, format_count |-> 0,
     hls_detected |-> FALSE, hls_separated_streams |-> FALSE,
     available_formats |-> <<>>, recommended_format |-> None,
     tested_working_format |-> None, fallback_safe |-> FALSE,
     video_only_count |-> 0, audio_only_count |-> 0, combined_count |-> 0]

IsHlsInfo(f) == f.is_hls

\* get_ibm_yt-dlt.py: HLS formats with a height and a video codec.
IsVideoHls(f) == f.is_hls /\ f.height # 0 /\ f.vcodec # "none"

\* The HLS categories of the gpt5 variant.
IsVideoOnlyGpt5(f) == f.is_hls /\ f.height # 0 /\ f.vcodec # "none" /\ f.acodec \in {None, "none"}
IsAudioOnlyGpt5(f) ==
    /\ f.is_hls /\ ~IsVideoOnlyGpt5(f)
    /\ f.height = 0 /\ f.vcodec = "none" /\ f.acodec \notin {None, "none"}
IsCombinedGpt5(f) ==
    /\ f.is_hls /\ ~IsVideoOnlyGpt5(f) /\ ~IsAudioOnlyGpt5(f)
    /\ f.height # 0 /\ f.vcodec # "none" /\ f.acodec \notin {None, "none"}

\* The HLS categories of the claude45 variant.
IsVideoOnlyClaude(f) == f.is_hls /\ f.height # 0 /\ f.vcodec # "none" /\ f.acodec = "none"
IsAudioOnlyClaude(f) ==
    f.is_hls /\ ~IsVideoOnlyClaude(f) /\ f.vcodec = "none" /\ f.acodec # "none"
IsCombinedClaude(f) ==
    /\ f.is_hls /\ ~IsVideoOnlyClaude(f) /\ ~IsAudioOnlyClaude(f)
    /\ f.height # 0 /\ f.vcodec # "none" /\ f.acodec # "none"

\* A recommendation that prefers the video-only formats to the combined ones.
RecommendedFormatVideoFirst(hls_detected, combined, video_only, audio_only) ==
    IF ~hls_detected THEN None
    ELSE IF video_only # <<>> /\ audio_only # <<>>
         THEN MaxByHeight(video_only).id \o "+" \o audio_only[1].id
    ELSE IF video_only # <<>> THEN MaxByHeight(video_only).id
    ELSE IF combined # <<>> THEN MaxByHeight(combined).id
    ELSE None

\* recommended_format of the gpt5 and claude45 variants.
RecommendedFormat(hls_detected, combined, video_only, audio_only) ==
    IF ~hls_detected THEN None
    ELSE IF combined # <<>> THEN MaxByHeight(combined).id
    ELSE IF video_only # <<>> /\ audio_only # <<>>
         THEN MaxByHeight(video_only).id \o "+" \o audio_only[1].id
    ELSE IF video_only # <<>> THEN MaxByHeight(video_only).id
    ELSE None

\* A probe that recommends the tallest video format, HLS or not.
DiagnosticsIbmAnyFormat(fmts) ==
    LET details == FormatDetails("ibm", fmts)
        hls     == SelectSeq(details, IsHlsInfo)
        video   == SelectSeq(details, LAMBDA f : f.height # 0 /\ f.vcodec # "none")
    IN  [InitialDiagnostics EXCEPT
            !.url_accessible    = TRUE,
            !.format_count      = Len(fmts),
            !.format_detection  = (fmts # <<>>),
            !.hls_detected      = (hls # <<>>),
            !.available_formats = details,
            !.recommended_format =
                IF video # <<>> THEN MaxByHeight(video).id ELSE None]

\* get_ibm_yt-dlt.py.  The simulated selector tests only log.
DiagnosticsIbm(fmts) ==
    LET details   == FormatDetails("ibm", fmts)
        hls       == SelectSeq(details, IsHlsInfo)
        video_hls == SelectSeq(hls, IsVideoHls)
    IN  [InitialDiagnostics EXCEPT
            !.url_accessible    = TRUE,
            !.format_count      = Len(fmts),
            !.format_detection  = (fmts # <<>>),
            !.hls_detected      = (hls # <<>>),
            !.available_formats = details,
            !.recommended_format =
                IF hls # <<>> /\ video_hls # <<>> THEN MaxByHeight(video_hls).id ELSE None]

\* The gpt5 variant.  The simulated selector tests fill test_selectors only.
DiagnosticsGpt5(fmts) ==
    LET details    == FormatDetails("gpt5", fmts)
        hls        == SelectSeq(details, IsHlsInfo)
        video_only == SelectSeq(details, IsVideoOnlyGpt5)
        audio_only == SelectSeq(details, IsAudioOnlyGpt5)
        combined   == SelectSeq(details, IsCombinedGpt5)
    IN  [InitialDiagnostics EXCEPT
            !.url_accessible    = TRUE,
            !.format_count      = Len(fmts),
            !.format_detection  = (fmts # <<>>),
            !.hls_detected      = (hls # <<>>),
            !.available_formats = details,
            !.video_only_count  = Len(video_only),
            !.audio_only_count  = Len(audio_only),
            !.combined_count    = Len(combined),
            !.recommended_format =
                RecommendedFormat(hls # <<>>, combined, video_only, audio_only)]

\* A claude45 probe whose fallback_safe comes from the format analysis
\* alone, whatever the simulated extraction with 'best' does.
DiagnosticsClaude45AnalysisOnly(fmts, recOk, bestOk) ==
    LET details    == FormatDetails("claude45", fmts)
        hls        == SelectSeq(details, IsHlsInfo)
        video_only == SelectSeq(details, IsVideoOnlyClaude)
        audio_only == SelectSeq(details, IsAudioOnlyClaude)
        combined   == SelectSeq(details, IsCombinedClaude)
        separated  == hls # <<>> /\ video_only # <<>> /\ audio_only # <<>> /\ combined = <<>>
        rec        == RecommendedFormat(hls # <<>>, combined, video_only, audio_only)
    IN  [InitialDiagnostics EXCEPT
            !.url_accessible    = TRUE,
            !.format_count      = Len(fmts),
            !.format_detection  = (fmts # <<>>),
            !.hls_detected      = (hls # <<>>),
            !.hls_separated_streams = separated,
            !.available_formats = details,
            !.video_only_count  = Len(video_only),
            !.audio_only_count  = Len(audio_only),
            !.combined_count    = Len(combined),
            !.recommended_format = rec,
            !.tested_working_format = IF rec # None /\ recOk THEN rec ELSE None,
            !.fallback_safe     = IF fmts = <<>> THEN FALSE
                                  ELSE IF hls = <<>> THEN TRUE
                                  ELSE IF separated THEN FALSE
                                  ELSE combined # <<>>]

\* The claude45 variant.  recOk: the simulated extraction with the
\* recommended format succeeded; bestOk: the one with 'best' did.
DiagnosticsClaude45(fmts, recOk, bestOk) ==
    LET details    == FormatDetails("claude45", fmts)
        hls        == SelectSeq(details, IsHlsInfo)
        video_only == SelectSeq(details, IsVideoOnlyClaude)
        audio_only == SelectSeq(details, IsAudioOnlyClaude)
        combined   == SelectSeq(details, IsCombinedClaude)
        separated  == hls # <<>> /\ video_only # <<>> /\ audio_only # <<>> /\ combined = <<>>
        rec        == RecommendedFormat(hls # <<>>, combined, video_only, audio_only)
        safe3      == IF fmts = <<>> THEN FALSE
                      ELSE IF hls = <<>> THEN TRUE
                      ELSE IF separated THEN FALSE
                      ELSE combined # <<>>
    IN  [InitialDiagnostics EXCEPT
            !.url_accessible    = TRUE,
            !.format_count      = Len(fmts),
            !.format_detection  = (fmts # <<>>),
            !.hls_detected      = (hls # <<>>),
            !.hls_separated_streams = separated,
            !.available_formats = details,
            !.video_only_count  = Len(video_only),
            !.audio_only_count  = Len(audio_only),
            !.combined_count    = Len(combined),
            !.recommended_format = rec,
            !.tested_working_format = IF rec # None /\ recOk THEN rec ELSE None,
            !.fallback_safe     = IF rec # None /\ separated THEN bestOk ELSE safe3]

\* Test 4 of the claude45 variant: the simulated extractions it makes, in
\* order, each with the selector tried and whether the library returned.
\* (The other two variants only log the outcome of their tests.)
ProbeTestsClaude45(fmts, recOk, bestOk) ==
    LET d == DiagnosticsClaude45(fmts, recOk, bestOk)
    IN  IF d.recommended_format = None THEN <<>>
        ELSE <<[format |-> d.recommended_format, ok |-> recOk]>>
             \o (IF d.hls_separated_streams
                 THEN <<[format |-> "best", ok |-> bestOk]>>
                 ELSE <<>>)

\* The tests behind the record run_diagnostic_tests returns.
ProbeTests(variant, fmts, accessible, recOk, bestOk) ==
    IF accessible /\ variant = "claude45"
    THEN ProbeTestsClaude45(fmts, recOk, bestOk)
    ELSE <<>>

\* What run_diagnostic_tests returns.  accessible: the first extract_info
\* call returned (otherwise the fresh record is returned at once).
RunDiagnosticTests(variant, fmts, accessible, recOk, bestOk) ==
    IF ~accessible THEN InitialDiagnostics
    ELSE IF variant = "ibm" THEN DiagnosticsIbm(fmts)
    ELSE IF variant = "gpt5" THEN DiagnosticsGpt5(fmts)
    ELSE DiagnosticsClaude45(fmts, recOk, bestOk)

(***************************************************************************)
(* get_optimal_format_selector (get_ibm_yt-dlt.py and the gpt5 variant)    *)
(***************************************************************************)
Qualities == {"480p", "720p", "1080p", "best"}

\* int(preferred_quality.replace('p', '')) on the --quality choices.
PreferredHeight(q) ==
    CASE q = "480p"  -> 480
      [] q = "720p"  -> 720
      [] q = "1080p" -> 1080

\* An extension ranking that puts webm first.
ExtPriorityWebmFirst == <<"webm", "mp4", "mkv", "flv">>

ExtPriority == <<"mp4", "webm", "mkv", "flv">>

\* The first extension of ext_priority among the formats' extensions, or None.
BestExt(fmts) ==
    LET hit == SelectSeq(ExtPriority, LAMBDA e : \E i \in 1..Len(fmts) : fmts[i].ext = e)
    IN  IF hit = <<>> THEN None ELSE hit[1]

HasHeight(f) == f.height # 0

IsHlsWithHeight(f) == f.is_hls /\ f.height # 0

\* The non-HLS branch of get_ibm_yt-dlt.py.
RegularSelectorIbm(fmts, preferred_quality) ==
    LET heights  == SelectSeq(fmts, HasHeight)
        best_ext == BestExt(fmts)
        by_ext   == IF best_ext # None THEN "best[ext=" \o best_ext \o "]/best" ELSE "best"
    IN  IF fmts = <<>> THEN "best"
        ELSE IF heights = <<>> \/ preferred_quality = "best" THEN by_ext
        ELSE LET target == Min(PreferredHeight(preferred_quality), MaxByHeight(heights).height)
             IN  IF best_ext # None
                 THEN "best[height<=" \o ToString(target) \o "][ext=" \o best_ext
                          \o "]/best[ext=" \o best_ext \o "]/best"
                 ELSE "best[height<=" \o ToString(target) \o "]/best"

\* get_ibm_yt-dlt.py.  d: the record of the function's own diagnostics run;
\* infoOk: its get_video_info call returned.
GetOptimalFormatSelectorIbm(d, fmts, infoOk, preferred_quality) ==
    LET hls_formats == SelectSeq(d.available_formats, IsHlsWithHeight)
    IN  IF ~d.format_detection THEN "best"
        ELSE IF d.hls_detected /\ d.recommended_format # None THEN d.recommended_format
        ELSE IF d.hls_detected /\ hls_formats # <<>> THEN MaxByHeight(hls_formats).id
        ELSE IF ~infoOk THEN "best"
        ELSE RegularSelectorIbm(fmts, preferred_quality)

IsVideoStream(f) == f.height # 0 /\ f.vcodec # "none"
IsAudioStream(f) == f.height = 0 /\ f.vcodec = "none" /\ f.acodec # "none"
IsCombinedStream(f) == f.height # 0 /\ f.acodec \notin {None, "none"}

\* The non-HLS branch of the gpt5 variant.
RegularSelectorGpt5(fmts, preferred_quality) ==
    LET heights  == SelectSeq(fmts, HasHeight)
        best_ext == BestExt(fmts)
        by_ext   == IF best_ext # None
                    THEN "bestvideo[ext=" \o best_ext \o "]+bestaudio/best"
                    ELSE "bestvideo+bestaudio/best"
    IN  IF fmts = <<>> THEN "bestvideo+bestaudio/best"
        ELSE IF heights = <<>> \/ preferred_quality = "best" THEN by_ext
        ELSE LET target == Min(PreferredHeight(preferred_quality), MaxByHeight(heights).height)
             IN  IF best_ext # None
                 THEN "bestvideo[height<=" \o ToString(target) \o "][ext=" \o best_ext
                          \o "]+bestaudio/best"
                 ELSE "bestvideo[height<=" \o ToString(target) \o "]+bestaudio/best"

\* The gpt5 variant.
GetOptimalFormatSelectorGpt5(d, fmts, infoOk, preferred_quality) ==
    LET video_streams    == SelectSeq(d.available_formats, IsVideoStream)
        audio_streams    == SelectSeq(d.available_formats, IsAudioStream)
        combined_streams == SelectSeq(d.available_formats, IsCombinedStream)
    IN  IF ~d.format_detection THEN "bestvideo+bestaudio/best"
        ELSE IF d.hls_detected /\ combined_streams # <<>> THEN MaxByHeight(combined_streams).id
        ELSE IF d.hls_detected /\ video_streams # <<>> /\ audio_streams # <<>>
             THEN MaxByHeight(video_streams).id \o "+" \o audio_streams[1].id
        ELSE IF d.hls_detected /\ video_streams # <<>> THEN MaxByHeight(video_streams).id
        ELSE IF ~infoOk THEN "bestvideo+bestaudio/best"
        ELSE RegularSelectorGpt5(fmts, preferred_quality)

GetOptimalFormatSelector(variant, d, fmts, infoOk, preferred_quality) ==
    IF variant = "ibm" THEN GetOptimalFormatSelectorIbm(d, fmts, infoOk, preferred_quality)
    ELSE GetOptimalFormatSelectorGpt5(d, fmts, infoOk, preferred_quality)

(***************************************************************************)
(* download_video: the fallback list of selectors                          *)
(***************************************************************************)
Ids(s) == [i \in 1..Len(s) |-> s[i].id]

\* get_ibm_yt-dlt.py: the three best HLS video formats, then the optimal
\* selector and the generic ones.
FormatOptionsIbm(d, optimal_format) ==
    LET hls_video_formats == SelectSeq(d.available_formats, IsVideoHls)
        top == IF d.hls_detected
               THEN Ids(Take(SortByHeightDesc(hls_video_formats), 3))
               ELSE <<>>
    IN  Dedup(top \o <<optimal_format, "best", "worst", "best[ext=mp4]", "best[ext=webm]">>)

IsCombinedDl(f) == f.is_hls /\ f.height # 0 /\ f.acodec \notin {None, "none"}
IsAudioOnlyDl(f) ==
    f.is_hls /\ f.height = 0 /\ f.vcodec = "none" /\ f.acodec \notin {None, "none"}

RECURSIVE Combos(_, _)
\* for v in vs: for a in as: f"{v['id']}+{a['id']}"
Combos(vs, as) ==
    IF vs = <<>> THEN <<>>
    ELSE [j \in 1..Len(as) |-> vs[1].id \o "+" \o as[j].id] \o Combos(Tail(vs), as)

IsTruthy(sel) == sel # None /\ sel # ""

\* The gpt5 variant: combined ids, video+audio pairs, video-only ids, then
\* the optimal selector and the generic ones; falsy entries are dropped.
FormatOptionsGpt5(d, optimal_format) ==
    LET a_only   == SelectSeq(d.available_formats, IsAudioOnlyDl)
        unsorted == SelectSeq(d.available_formats, IsVideoOnlyGpt5)
        \* v_only is sorted only inside `if v_only and a_only`
        v_only   == IF a_only # <<>> THEN SortByHeightDesc(unsorted) ELSE unsorted
        combined == SortByHeightDesc(SelectSeq(d.available_formats, IsCombinedDl))
        hls == IF ~d.hls_detected THEN <<>>
               ELSE Ids(Take(combined, 3))
                    \o (IF v_only # <<>> /\ a_only # <<>>
                        THEN Combos(Take(v_only, 3), Take(a_only, 2)) ELSE <<>>)
                    \o Ids(Take(v_only, 2))
    IN  Dedup(SelectSeq(hls \o <<optimal_format, "bestvideo+bestaudio/best",
                                 "best[ext=mp4]+bestaudio[ext=mp4]/best",
                                 "bestvideo/best", "best", "worst">>, IsTruthy))

IsAudioOnlyClaudeDl(f) == f.is_hls /\ f.vcodec = "none" /\ f.acodec # "none"

RECURSIVE AppendNew(_, _)
\* for x in items: if x not in opts: opts.append(x)
AppendNew(opts, items) ==
    IF items = <<>> THEN opts
    ELSE AppendNew(IF InSeq(Head(items), opts) THEN opts ELSE Append(opts, Head(items)),
                   Tail(items))

GenericSelectorsClaude45 ==
    <<"best+bestaudio/best", "best[ext=mp4]+bestaudio[ext=mp4]/best", "best">>

\* A fallback list that adds the generic selectors whenever diagnostics call
\* them safe, separated streams or not.
FormatOptionsClaude45SafeFirst(d) ==
    LET first == IF d.tested_working_format # None THEN <<d.tested_working_format>> ELSE <<>>
    IN  IF d.fallback_safe THEN first \o GenericSelectorsClaude45 ELSE first

\* A fallback list that falls back on 'best' when nothing else qualifies.
FormatOptionsClaude45LastResort(d) ==
    LET first == IF d.tested_working_format # None THEN <<d.tested_working_format>> ELSE <<>>
        v_only == SortByHeightDesc(SelectSeq(d.available_formats, IsVideoOnlyClaude))
        a_only == SelectSeq(d.available_formats, IsAudioOnlyClaudeDl)
        opts   == Dedup(IF d.hls_separated_streams
                        THEN IF v_only # <<>> /\ a_only # <<>>
                             THEN AppendNew(first, Combos(Take(v_only, 3), Take(a_only, 1)))
                             ELSE first
                        ELSE IF d.fallback_safe THEN first \o GenericSelectorsClaude45
                        ELSE first)
    IN  IF opts = <<>> THEN <<"best">> ELSE opts

\* The claude45 variant: the tested format first; video+audio pairs for
\* separated HLS, the generic selectors only when diagnostics call them safe.
FormatOptionsClaude45(d) ==
    LET first == IF d.tested_working_format # None THEN <<d.tested_working_format>> ELSE <<>>
        v_only == SortByHeightDesc(SelectSeq(d.available_formats, IsVideoOnlyClaude))
        a_only == SelectSeq(d.available_formats, IsAudioOnlyClaudeDl)
    IN  Dedup(IF d.hls_separated_streams
              THEN IF v_only # <<>> /\ a_only # <<>>
                   THEN AppendNew(first, Combos(Take(v_only, 3), Take(a_only, 1)))
                   ELSE first
              ELSE IF d.fallback_safe THEN first \o GenericSelectorsClaude45
              ELSE first)

(***************************************************************************)
(* State                                                                   *)
(***************************************************************************)
VARIABLES
    script,               \* which of the four scripts runs
    args,                 \* the parsed command line
    formats,              \* info['formats'] as the library reports it (IBM scripts)
    pc,                   \* position of the (single) thread
    diagnostics,          \* download_video's local diagnostics record
    diagnostic_data,      \* self.diagnostic_data: <<>> for {}, else <<record>>
    probe_tests,          \* the simulated extractions the last probe's record depends on
    optimal_format_found, \* self.optimal_format_found (claude45)
    format_options,       \* download_video's fallback list
    idx,                  \* index of the retry loop into format_options
    calls,                \* history of the library download calls
    fail_reasons,         \* self.fail_reasons (gpt5)
    progress_data,        \* self.progress_data is non-empty
    report_written,       \* the JSON report file was written
    output_dir,           \* the output directory exists
    ret,                  \* download_video's result: "none", "True", "False"
    interrupted,          \* pc at which a KeyboardInterrupt arrived, or "none"
    extract_failed,       \* every extract_info call of a non-download mode raised
    exit_status           \* the process's exit status, once pc = "exit"

vars == <<script, args, formats, pc, diagnostics, diagnostic_data, probe_tests,
          optimal_format_found, format_options, idx, calls, fail_reasons,
          progress_data, report_written, output_dir, ret, interrupted,
          extract_failed, exit_status>>

VideoIds == {"abc123xyz", "L7gv9aGB7VY"}
IbmUrl == "https://video.ibm.com/recorded/134516112"

\* The short link to the same video, which the code does not use.
YoutubeUrlShort(video_id) == "https://youtu.be/" \o video_id

\* url = f'https://www.youtube.com/watch?v={video_id}'
YoutubeUrl(video_id) == "https://www.youtube.com/watch?v=" \o video_id

YtArgs ==
    [list_formats : BOOLEAN, quality : {"low", "medium", "high"},
     size : {"low", "medium", "high"}, language : {"en", "es"},
     cookies : BOOLEAN, target : VideoIds]

IbmArgs ==
    [diagnostics : BOOLEAN, list_formats : BOOLEAN, info_only : BOOLEAN,
     quality : {"best", "720p"}, target : {IbmUrl}]

Init ==
    /\ script \in Scripts
    /\ args \in (IF script = "ytid" THEN YtArgs ELSE IbmArgs)
    /\ formats \in (IF script = "ytid" THEN {<<>>} ELSE FormatLists)
    /\ pc = "main"
    /\ diagnostics = InitialDiagnostics
    /\ diagnostic_data = <<>>
    /\ probe_tests = <<>>
    /\ optimal_format_found = None
    /\ format_options = <<>>
    /\ idx = 0
    /\ calls = <<>>
    /\ fail_reasons = <<>>
    /\ progress_data = FALSE
    /\ report_written = FALSE
    /\ output_dir \in (IF script = "ytid" THEN BOOLEAN ELSE {TRUE})
    /\ ret = "none"
    /\ interrupted = "none"
    /\ extract_failed = FALSE
    /\ exit_status = 0

\* A mkdir that is skipped: the directory is left as it was.
MkdirSkipped(exists) == exists

\* Path.mkdir(parents=True, exist_ok=True): the directory exists afterwards,
\* whether or not it existed before.
Mkdir(exists) == TRUE

\* sys.exit(code), or main returning (code 0).
Exit(code) == pc' = "exit" /\ exit_status' = code

\* A probe that stores its record on every return, the early one included.
StoreDiagnosticsAlways(d) ==
    /\ diagnostic_data' = <<d>>
    /\ optimal_format_found' =
           IF script = "claude45" /\ d.tested_working_format # None
           THEN d.tested_working_format
           ELSE optimal_format_found

\* The tail of run_diagnostic_tests: the record is stored on the object
\* unless the function returned early (URL not accessible).
StoreDiagnostics(d) ==
    /\ diagnostic_data' = IF d.url_accessible THEN <<d>> ELSE diagnostic_data
    /\ optimal_format_found' =
           IF script = "claude45" /\ d.url_accessible /\ d.tested_working_format # None
           THEN d.tested_working_format
           ELSE optimal_format_found

(***************************************************************************)
(* The IBM scripts: main's modes before the download                       *)
(***************************************************************************)
\* A main that looks at --list-formats before --diagnostics.
ModeListFormatsFirst(a) ==
    IF a.list_formats THEN "list_formats"
    ELSE IF a.diagnostics THEN "diagnostics"
    ELSE IF a.info_only THEN "info_only"
    ELSE "download"

\* main's chain of `if args.<mode>: ... return`: the mode a command line of
\* an IBM script runs in.
Mode(a) ==
    IF a.diagnostics THEN "diagnostics"
    ELSE IF a.list_formats THEN "list_formats"
    ELSE IF a.info_only THEN "info_only"
    ELSE "download"

\* main, --diagnostics: run_diagnostic_tests, print, return.
MainDiagnostics ==
    /\ pc = "main" /\ script \in IbmScripts /\ Mode(args) = "diagnostics"
    /\ \E acc, recOk, bestOk \in BOOLEAN :
         LET d == RunDiagnosticTests(script, formats, acc, recOk, bestOk)
         IN  /\ StoreDiagnostics(d)
             /\ probe_tests' = ProbeTests(script, formats, acc, recOk, bestOk)
             /\ extract_failed' = ~acc
    /\ Exit(0)
    /\ UNCHANGED <<script, args, formats, diagnostics, format_options, idx, calls,
                   fail_reasons, progress_data, report_written, output_dir, ret,
                   interrupted>>

\* main, --list-formats: list_available_formats; when its extraction
\* raises, the formats come from run_diagnostic_tests (called by main in
\* get_ibm_yt-dlt.py and claude45, by list_available_formats in gpt5).
MainListFormats ==
    /\ pc = "main" /\ script \in IbmScripts /\ Mode(args) = "list_formats"
    /\ \E listOk, acc, recOk, bestOk \in BOOLEAN :
         LET d == RunDiagnosticTests(script, formats, acc, recOk, bestOk)
         IN  IF listOk
             THEN /\ extract_failed' = FALSE
                  /\ UNCHANGED <<diagnostic_data, optimal_format_found, probe_tests>>
             ELSE /\ extract_failed' = ~acc
                  /\ StoreDiagnostics(d)
                  /\ probe_tests' = ProbeTests(script, formats, acc, recOk, bestOk)
    /\ Exit(0)
    /\ UNCHANGED <<script, args, formats, diagnostics, format_options, idx, calls,
                   fail_reasons, progress_data, report_written, output_dir, ret,
                   interrupted>>

\* main: get_video_info; when it raises, run_diagnostic_tests decides
\* whether to go on (sys.exit(1) when the URL is not accessible).
MainGetVideoInfo ==
    /\ pc = "main" /\ script \in IbmScripts /\ Mode(args) \in {"info_only", "download"}
    /\ \E infoOk, acc, recOk, bestOk \in BOOLEAN :
         LET d == RunDiagnosticTests(script, formats, acc, recOk, bestOk)
         IN  IF infoOk
             THEN /\ pc' = "info" /\ exit_status' = exit_status
                  /\ UNCHANGED <<diagnostic_data, optimal_format_found, probe_tests>>
             ELSE /\ StoreDiagnostics(d)
                  /\ probe_tests' = ProbeTests(script, formats, acc, recOk, bestOk)
                  /\ IF d.url_accessible
                     THEN pc' = "info" /\ exit_status' = exit_status
                     ELSE Exit(1)
    /\ UNCHANGED <<script, args, formats, diagnostics, format_options, idx, calls,
                   fail_reasons, progress_data, report_written, output_dir, ret,
                   interrupted, extract_failed>>

\* main, --info-only: print the information and return.
MainInfoOnly ==
    /\ pc = "info" /\ Mode(args) = "info_only"
    /\ Exit(0)
    /\ UNCHANGED <<script, args, formats, diagnostics, diagnostic_data, probe_tests,
                   optimal_format_found, format_options, idx, calls, fail_reasons,
                   progress_data, report_written, output_dir, ret, interrupted,
                   extract_failed>>

\* main: success = downloader.download_video(args.url) is entered.
MainStartDownload ==
    /\ pc = "info" /\ Mode(args) = "download"
    /\ pc' = "dv_start"
    /\ UNCHANGED <<script, args, formats, diagnostics, diagnostic_data, probe_tests,
                   optimal_format_found, format_options, idx, calls, fail_reasons,
                   progress_data, report_written, output_dir, ret, interrupted,
                   extract_failed, exit_status>>

(***************************************************************************)
(* The IBM scripts: download_video                                         *)
(***************************************************************************)
\* One library download call: YoutubeDL(opts).download([url]).
Call(url, opts, outcome, phase) ==
    [urls |-> <<url>>, opts |-> opts, outcome |-> outcome, phase |-> phase]

\* The retry loop's options: base_ydl_opts.copy() with 'format' set.
LoopOpts(selector) == [format |-> selector, ignoreerrors |-> FALSE]

\* The final fallback's options: no 'format' key.
FinalOpts == [quiet |-> FALSE, no_warnings |-> FALSE]

FormatOptions(variant, d, optimal_format) ==
    IF variant = "ibm" THEN FormatOptionsIbm(d, optimal_format)
    ELSE IF variant = "gpt5" THEN FormatOptionsGpt5(d, optimal_format)
    ELSE FormatOptionsClaude45(d)

\* A download_video that goes on whatever the diagnostics say.
AbortNever(variant, d) == FALSE

\* download_video's early `return False` after the diagnostics probe: the
\* URL is not accessible, or (claude45) no formats were detected.
AbortBeforeDownload(variant, d) ==
    ~d.url_accessible \/ (variant = "claude45" /\ ~d.format_detection)

\* A download_video that calls the library's download before its probe.
DownloadVideoCallFirst ==
    /\ pc = "dv_start"
    /\ \E outcome \in {"ok", "DownloadError"} :
         /\ calls' = Append(calls, Call(args.target, LoopOpts("best"), outcome, "loop"))
         /\ ret' = IF outcome = "ok" THEN "True" ELSE "False"
    /\ pc' = "dv_ret"
    /\ output_dir' = Mkdir(output_dir)
    /\ UNCHANGED <<script, args, formats, diagnostics, diagnostic_data, probe_tests,
                   optimal_format_found, format_options, idx, fail_reasons,
                   progress_data, report_written, interrupted, extract_failed,
                   exit_status>>

\* download_video up to the retry loop: mkdir, the diagnostics probe, the
\* early returns, the optimal selector (which in get_ibm_yt-dlt.py and gpt5
\* runs the probe and get_video_info once more when nothing is
\* recommended) and the fallback list.
DownloadVideoBegin ==
    /\ pc = "dv_start"
    /\ \E acc, recOk, bestOk, acc2, infoOk \in BOOLEAN :
         LET d       == RunDiagnosticTests(script, formats, acc, recOk, bestOk)
             again   == script \in {"ibm", "gpt5"} /\ d.url_accessible
                          /\ d.recommended_format = None
             d2      == RunDiagnosticTests(script, formats, acc2, recOk, bestOk)
             optimal == IF d.recommended_format # None THEN d.recommended_format
                        ELSE GetOptimalFormatSelector(script, d2, formats, infoOk, args.quality)
             early   == AbortBeforeDownload(script, d)
             opts    == IF early THEN <<>> ELSE FormatOptions(script, d, optimal)
         IN  /\ diagnostics' = d
             /\ StoreDiagnostics(IF again /\ d2.url_accessible THEN d2 ELSE d)
             /\ probe_tests' = ProbeTests(script, formats, acc, recOk, bestOk)
             /\ format_options' = opts
             /\ IF early \/ opts = <<>>
                THEN ret' = "False" /\ pc' = "dv_ret" /\ idx' = idx
                ELSE ret' = ret /\ pc' = "dv_loop" /\ idx' = 1
    /\ output_dir' = Mkdir(output_dir)
    /\ UNCHANGED <<script, args, formats, calls, fail_reasons, progress_data,
                   report_written, interrupted, extract_failed, exit_status>>

\* A retry loop that gives up on an unexpected Exception.
LoopNextAbortOnException(variant, outcome, i, n) ==
    IF outcome \in {"ok", "Exception"} THEN "dv_ret"
    ELSE IF i < n THEN "dv_loop"
    ELSE IF variant = "claude45" THEN "dv_ret" ELSE "dv_final"

\* A retry loop that does not return after a successful call.
LoopNextNoStop(variant, outcome, i, n) ==
    IF i < n THEN "dv_loop"
    ELSE IF outcome = "ok" \/ variant = "claude45" THEN "dv_ret" ELSE "dv_final"

\* A retry loop that returns after the last selector without a final call.
LoopNextSkipFinal(variant, outcome, i, n) ==
    IF outcome = "ok" THEN "dv_ret"
    ELSE IF i < n THEN "dv_loop"
    ELSE "dv_ret"

\* A retry loop that goes on to the final call in every variant.
LoopNextFinalToo(variant, outcome, i, n) ==
    IF outcome = "ok" THEN "dv_ret"
    ELSE IF i < n THEN "dv_loop"
    ELSE "dv_final"

\* Where the retry loop goes after the attempt on selector i of n.
LoopNext(variant, outcome, i, n) ==
    IF outcome = "ok" THEN "dv_ret"
    ELSE IF i < n THEN "dv_loop"
    ELSE IF variant = "claude45" THEN "dv_ret" ELSE "dv_final"

\* download_video's result after the attempt, "none" while it goes on.
LoopResult(variant, outcome, i, n) ==
    IF outcome = "ok" THEN "True"
    ELSE IF i >= n /\ variant = "claude45" THEN "False"
    ELSE "none"

\* One pass of the retry loop: a download call with format_options[idx].
\* hook: the progress hook recorded progress during the call.
TryFormat ==
    /\ pc = "dv_loop"
    /\ \E outcome \in {"ok", "DownloadError", "Exception"}, hook \in BOOLEAN :
         LET n == Len(format_options)
         IN  /\ calls' = Append(calls, Call(args.target, LoopOpts(format_options[idx]), outcome, "loop"))
             /\ progress_data' = (progress_data \/ hook)
             /\ fail_reasons' = IF script = "gpt5" /\ outcome # "ok"
                                THEN Append(fail_reasons, format_options[idx])
                                ELSE fail_reasons
             /\ idx' = IF outcome = "ok" THEN idx ELSE idx + 1
             /\ pc' = LoopNext(script, outcome, idx, n)
             /\ ret' = LoopResult(script, outcome, idx, n)
    /\ UNCHANGED <<script, args, formats, diagnostics, diagnostic_data, probe_tests,
                   optimal_format_found, format_options, report_written, output_dir,
                   interrupted, extract_failed, exit_status>>

\* A final fallback whose failure is not reported.
FinalResultAlwaysTrue(outcome) == "True"

\* The result of the final fallback call.
FinalResult(outcome) == IF outcome = "ok" THEN "True" ELSE "False"

\* get_ibm_yt-dlt.py and gpt5: the last call, without a 'format' option.
FinalFallback ==
    /\ pc = "dv_final"
    /\ \E outcome \in {"ok", "DownloadError", "Exception"}, hook \in BOOLEAN :
         /\ calls' = Append(calls, Call(args.target, FinalOpts, outcome, "final"))
         /\ progress_data' = (progress_data \/ hook)
         /\ ret' = FinalResult(outcome)
    /\ pc' = "dv_ret"
    /\ UNCHANGED <<script, args, formats, diagnostics, diagnostic_data, probe_tests,
                   optimal_format_found, format_options, idx, fail_reasons,
                   report_written, output_dir, interrupted, extract_failed, exit_status>>

(***************************************************************************)
(* get_yt-video-by-id.py                                                   *)
(***************************************************************************)
Levels == {"low", "medium", "high"}

\* RESOLUTION_LIMITS[('high', 'high')]: None, no limit.
NoLimit == 0

\* A table that looks at the quality only.
ResolutionLimitByQuality(quality, size) ==
    CASE quality = "low"    -> 360
      [] quality = "medium" -> 720
      [] quality = "high"   -> NoLimit
      [] OTHER -> 720

\* RESOLUTION_LIMITS.get((quality, size), 720)
ResolutionLimit(quality, size) ==
    CASE quality = "low"    /\ size = "low"    -> 360
      [] quality = "low"    /\ size = "medium" -> 480
      [] quality = "low"    /\ size = "high"   -> 720
      [] quality = "medium" /\ size = "low"    -> 480
      [] quality = "medium" /\ size = "medium" -> 720
      [] quality = "medium" /\ size = "high"   -> 1080
      [] quality = "high"   /\ size = "low"    -> 720
      [] quality = "high"   /\ size = "medium" -> 1080
      [] quality = "high"   /\ size = "high"   -> NoLimit
      [] OTHER -> 720

\* A selector that never limits the height.
GetFormatSelectorUnlimited(quality, size) ==
    "bestvideo[ext=mp4]+bestaudio[ext=m4a]/bestvideo+bestaudio/best[ext=mp4]/best"

\* A selector with the height-limited alternatives only.
GetFormatSelectorNoFallback(quality, size) ==
    LET h == "[height<=720]"
    IN  "bestvideo" \o h \o "[ext=mp4]+bestaudio[ext=m4a]/" \o "best" \o h

\* get_format_selector
GetFormatSelector(quality, size) ==
    LET max_height == ResolutionLimit(quality, size)
        h == "[height<=" \o ToString(max_height) \o "]"
    IN  IF max_height = NoLimit
        THEN "bestvideo[ext=mp4]+bestaudio[ext=m4a]/bestvideo+bestaudio/best[ext=mp4]/best"
        ELSE "bestvideo" \o h \o "[ext=mp4]+bestaudio[ext=m4a]/"
             \o "bestvideo" \o h \o "+bestaudio/"
             \o "best" \o h \o "[ext=mp4]/"
             \o "best" \o h \o "/"
             \o "bestvideo+bestaudio/"
             \o "best[ext=mp4]/"
             \o "best"

\* Options built from the parameters' defaults, whatever was passed.
YtOptsDefaults(a) ==
    [format |-> "bestvideo+bestaudio/best",
     merge_output_format |-> "mp4",
     subtitleslangs |-> <<"en">>]

\* ydl_opts of download_video (the keys that depend on the arguments).
YtOpts(a) ==
    LET base == [format |-> GetFormatSelector(a.quality, a.size),
                 merge_output_format |-> "mp4",
                 subtitleslangs |-> <<a.language>>]
    IN  IF a.cookies
        THEN [k \in DOMAIN base \cup {"cookiesfrombrowser"} |->
                 IF k = "cookiesfrombrowser" THEN <<"chrome">> ELSE base[k]]
        ELSE base

\* main, --list-formats: list_formats catches every Exception and returns;
\* main returns.
YtListFormats ==
    /\ pc = "main" /\ script = "ytid" /\ args.list_formats
    /\ \E ok \in BOOLEAN : extract_failed' = ~ok
    /\ Exit(0)
    /\ UNCHANGED <<script, args, formats, diagnostics, diagnostic_data, probe_tests,
                   optimal_format_found, format_options, idx, calls, fail_reasons,
                   progress_data, report_written, output_dir, ret, interrupted>>

\* main: download_video is entered; it creates the output directory and
\* builds its options before the library is called.
YtStartDownload ==
    /\ pc = "main" /\ script = "ytid" /\ ~args.list_formats
    /\ pc' = "yt_download"
    /\ output_dir' = Mkdir(output_dir)
    /\ UNCHANGED <<script, args, formats, diagnostics, diagnostic_data, probe_tests,
                   optimal_format_found, format_options, idx, calls, fail_reasons,
                   progress_data, report_written, ret, interrupted, extract_failed,
                   exit_status>>

\* A download_video that handles DownloadError only.
YtResultDownloadErrorOnly(outcome) == IF outcome = "DownloadError" THEN "False" ELSE "True"

\* download_video's result from the outcome of its download call.
YtResult(outcome) == IF outcome = "ok" THEN "True" ELSE "False"

\* download_video: the single download call and the mapping of its
\* outcome to the boolean result.
YtDownloadVideo ==
    /\ pc = "yt_download"
    /\ \E outcome \in {"ok", "DownloadError", "Exception"} :
         /\ calls' = Append(calls, Call(YoutubeUrl(args.target), YtOpts(args), outcome, "single"))
         /\ ret' = YtResult(outcome)
    /\ pc' = "yt_ret"
    /\ UNCHANGED <<script, args, formats, diagnostics, diagnostic_data, probe_tests,
                   optimal_format_found, format_options, idx, fail_reasons,
                   progress_data, report_written, output_dir, interrupted,
                   extract_failed, exit_status>>

\* sys.exit(0 if success else 1)
YtExitCode(result) == IF result = "True" THEN 0 ELSE 1

YtExit ==
    /\ pc = "yt_ret"
    /\ Exit(YtExitCode(ret))
    /\ UNCHANGED <<script, args, formats, diagnostics, diagnostic_data, probe_tests,
                   optimal_format_found, format_options, idx, calls, fail_reasons,
                   progress_data, report_written, output_dir, ret, interrupted,
                   extract_failed>>

(***************************************************************************)
(* The IBM scripts: main after download_video, and interrupts              *)
(***************************************************************************)
\* save_progress_report writes the report unless there is nothing to
\* report: no progress (get_ibm_yt-dlt.py), or neither progress nor stored
\* diagnostics (gpt5, claude45).
ReportWritten(variant, progress, stored) ==
    IF variant = "ibm" THEN progress ELSE progress \/ stored # <<>>

\* A main that returns normally whatever download_video returned.
ExitCodeAlwaysZero(result) == 0

\* The exit status main derives from download_video's result: main returns
\* (status 0) on success, sys.exit(1) otherwise.
ExitCode(result) == IF result = "True" THEN 0 ELSE 1

\* main after download_video returned: the report, the summary, the exit.
MainAfterDownload ==
    /\ pc = "dv_ret"
    /\ report_written' = ReportWritten(script, progress_data, diagnostic_data)
    /\ Exit(ExitCode(ret))
    /\ UNCHANGED <<script, args, formats, diagnostics, diagnostic_data, probe_tests,
                   optimal_format_found, format_options, idx, calls, fail_reasons,
                   progress_data, output_dir, ret, interrupted, extract_failed>>

\* The positions at which the thread is inside a call into the library.
InLibrary ==
    IF script = "ytid" THEN pc = "yt_download" \/ (pc = "main" /\ args.list_formats)
    ELSE pc \in {"main", "dv_start", "dv_loop", "dv_final"}

\* The positions inside download_video.
InDownloadVideo == pc \in {"dv_start", "dv_loop", "dv_final", "yt_download"}

\* The exit status after a KeyboardInterrupt: the IBM scripts' main catches
\* it and calls sys.exit(1); get_yt-video-by-id.py has no handler, so the
\* interpreter ends the process by SIGINT (status 130).
InterruptStatus(variant) == IF variant = "ytid" THEN 130 ELSE 1

\* The user's interrupt arrives while the library is running.  No
\* `except Exception` clause catches it.
KeyboardInterrupt ==
    /\ InLibrary
    /\ interrupted' = pc
    /\ calls' = IF pc \in {"dv_loop", "dv_final", "yt_download"}
                THEN Append(calls,
                            Call(IF script = "ytid" THEN YoutubeUrl(args.target) ELSE args.target,
                                 IF pc = "dv_loop" THEN LoopOpts(format_options[idx])
                                 ELSE IF pc = "dv_final" THEN FinalOpts ELSE YtOpts(args),
                                 "KeyboardInterrupt",
                                 IF pc = "dv_loop" THEN "loop"
                                 ELSE IF pc = "dv_final" THEN "final" ELSE "single"))
                ELSE calls
    /\ output_dir' = (output_dir \/ pc = "dv_start")
    /\ Exit(InterruptStatus(script))
    /\ UNCHANGED <<script, args, formats, diagnostics, diagnostic_data, probe_tests,
                   optimal_format_found, format_options, idx, fail_reasons,
                   progress_data, report_written, ret, extract_failed>>

Next ==
    \/ MainDiagnostics
    \/ MainListFormats
    \/ MainGetVideoInfo
    \/ MainInfoOnly
    \/ MainStartDownload
    \/ DownloadVideoBegin
    \/ TryFormat
    \/ FinalFallback
    \/ MainAfterDownload
    \/ YtListFormats
    \/ YtStartDownload
    \/ YtDownloadVideo
    \/ YtExit
    \/ KeyboardInterrupt

Spec == Init /\ [][Next]_vars

(***************************************************************************)
(* download_video of get_yt-video-by-id.py called as a function            *)
(***************************************************************************)
\* quality and size as a caller of the function (the tests, an importing
\* module) may pass them: not restricted to the argparse choices.
DirectLevels == Levels \cup {"ultra"}

DirectArgs ==
    [list_formats : {FALSE}, quality : DirectLevels, size : DirectLevels,
     language : {"en", "es"}, cookies : BOOLEAN, target : VideoIds]

\* The state before download_video(video_id, quality, size, ...) is called.
DirectInit ==
    /\ script = "ytid"
    /\ args \in DirectArgs
    /\ formats = <<>>
    /\ pc = "main"
    /\ diagnostics = InitialDiagnostics
    /\ diagnostic_data = <<>>
    /\ probe_tests = <<>>
    /\ optimal_format_found = None
    /\ format_options = <<>>
    /\ idx = 0
    /\ calls = <<>>
    /\ fail_reasons = <<>>
    /\ progress_data = FALSE
    /\ report_written = FALSE
    /\ output_dir \in BOOLEAN
    /\ ret = "none"
    /\ interrupted = "none"
    /\ extract_failed = FALSE
    /\ exit_status = 0

\* The call runs to its return.
DirectNext ==
    \/ YtStartDownload
    \/ YtDownloadVideo

DirectSpec == DirectInit /\ [][DirectNext]_vars

(***************************************************************************)
(* get_optimal_format_selector called as a function                        *)
(***************************************************************************)
\* Progressive (non-HLS) entries of info['formats']: three with a height
\* and an extension of ext_priority, one with another extension, one
\* without a height.
RegularPool ==
    { Fmt("http-480",   480,  "vp9",  "opus", "webm", "https"),
      Fmt("http-1080",  1080, "avc1", "mp4a", "mp4",  "https"),
      Fmt("http-360",   360,  "h263", "mp3",  "flv",  "https"),
      Fmt("http-3gp",   240,  "h263", "amr",  "3gp",  "https"),
      Fmt("http-audio", 0,    "none", "mp4a", "m4a",  "https") }

SelectorLists == SeqsUpTo(FormatPool \cup RegularPool, MaxFormats)

SelectorArgs ==
    [diagnostics : {FALSE}, list_formats : {FALSE}, info_only : {FALSE},
     quality : Qualities, target : {IbmUrl}]

\* A downloader of get_ibm_yt-dlt.py or of the gpt5 variant on which
\* get_optimal_format_selector(url, quality) is about to be called.
SelectorInit ==
    /\ script \in {"ibm", "gpt5"}
    /\ args \in SelectorArgs
    /\ formats \in SelectorLists
    /\ pc = "main"
    /\ diagnostics = InitialDiagnostics
    /\ diagnostic_data = <<>>
    /\ probe_tests = <<>>
    /\ optimal_format_found = None
    /\ format_options = <<>>
    /\ idx = 0
    /\ calls = <<>>
    /\ fail_reasons = <<>>
    /\ progress_data = FALSE
    /\ report_written = FALSE
    /\ output_dir = TRUE
    /\ ret = "none"
    /\ interrupted = "none"
    /\ extract_failed = FALSE
    /\ exit_status = 0

\* The call runs to its return: `diagnostics` is the function's own probe
\* record, extract_failed tells that its get_video_info call raised, and
\* the selector returned is kept as the one element of format_options.
SelectOptimalFormat ==
    /\ pc = "main" /\ script \in {"ibm", "gpt5"}
    /\ \E acc, infoOk \in BOOLEAN :
         LET d == RunDiagnosticTests(script, formats, acc, FALSE, FALSE)
         IN  /\ diagnostics' = d
             /\ StoreDiagnostics(d)
             /\ probe_tests' = ProbeTests(script, formats, acc, FALSE, FALSE)
             /\ extract_failed' = ~infoOk
             /\ format_options' =
                    <<GetOptimalFormatSelector(script, d, formats, infoOk, args.quality)>>
    /\ pc' = "selected"
    /\ UNCHANGED <<script, args, formats, idx, calls, fail_reasons, progress_data,
                   report_written, output_dir, ret, interrupted, exit_status>>

SelectorNext == SelectOptimalFormat

SelectorSpec == SelectorInit /\ [][SelectorNext]_vars

(***************************************************************************)
(* Properties of the exit status and of the retry loop                     *)
(***************************************************************************)
\* The download calls of the retry loop, in the order they were made.
LoopCalls == SelectSeq(calls, LAMBDA c : c.phase = "loop")

\* The download calls made without a 'format' option.
DefaultCalls == SelectSeq(calls, LAMBDA c : "format" \notin DOMAIN c.opts)

\* download_video returned after every selector of a non-empty fallback
\* list was tried and failed.
AllSelectorsFailed ==
    /\ script \in IbmScripts
    /\ pc \in {"dv_ret", "exit"}
    /\ interrupted = "none"
    /\ format_options # <<>>
    /\ Len(LoopCalls) = Len(format_options)
    /\ \A i \in 1..Len(LoopCalls) : LoopCalls[i].outcome \in {"DownloadError", "Exception"}

C2_SelectorsInOrderOnce ==
    script \in IbmScripts =>
        /\ Len(LoopCalls) <= Len(format_options)
        /\ \A i \in 1..Len(LoopCalls) : LoopCalls[i].opts.format = format_options[i]
        /\ \A i, j \in 1..Len(format_options) :
               i # j => format_options[i] # format_options[j]
        /\ \A i, j \in 1..Len(LoopCalls) :
               i # j => LoopCalls[i].opts.format # LoopCalls[j].opts.format

\* get_ibm_yt-dlt.py tried a whole list that starts with the recommended
\* format, which the raw list names twice (as top HLS format and as the
\* optimal selector).
C2_Witness ==
    /\ script = "ibm"
    /\ diagnostics.recommended_format # None
    /\ Len(format_options) >= 5
    /\ Len(LoopCalls) = Len(format_options)

\* C3: in the IBM scripts a successful download call is the last call of
\* the run and download_video returns True with it; download_video returns
\* True only if its last download call succeeded.
C3_StopsAtFirstSuccess ==
    script \in IbmScripts =>
        /\ \A i \in 1..Len(calls) :
               calls[i].outcome = "ok" => (i = Len(calls) /\ ret = "True")
        /\ ret = "True" => (calls # <<>> /\ calls[Len(calls)].outcome = "ok")

\* The second selector succeeded while more selectors were left.
C3_Witness ==
    /\ script \in IbmScripts
    /\ pc = "exit"
    /\ ret = "True"
    /\ Len(calls) = 2
    /\ Len(format_options) > 2
    /\ calls[1].outcome = "DownloadError"

\* C4: in get_ibm_yt-dlt.py and gpt5, when every selector of the list has
\* failed, download_video makes exactly one more download call, its options
\* have no 'format' key, and it returns True if that call succeeds and False
\* if it raises.
C4_FinalFallback ==
    (AllSelectorsFailed /\ script \in {"ibm", "gpt5"}) =>
        /\ Len(calls) = Len(format_options) + 1
        /\ Len(DefaultCalls) = 1
        /\ calls[Len(calls)].phase = "final"
        /\ "format" \notin DOMAIN calls[Len(calls)].opts
        /\ calls[Len(calls)].outcome = "ok" => ret = "True"
        /\ calls[Len(calls)].outcome \in {"DownloadError", "Exception"} => ret = "False"

\* gpt5: every selector failed and the final call succeeded.
C4_Witness ==
    /\ AllSelectorsFailed
    /\ script = "gpt5"
    /\ ret = "True"
    /\ calls[Len(calls)].phase = "final"

\* C5 as stated: in claude45, when every selector has failed, a download
\* call with default options (no 'format') is made before download_video
\* returns.
C5_FinalCallClaude45 ==
    (AllSelectorsFailed /\ script = "claude45") => Len(DefaultCalls) >= 1

\* C5, amended: in claude45, when every selector of the list has failed,
\* download_video makes no further download call and returns False; no
\* download call of claude45 lacks a 'format' option.
C5_NoFinalCallClaude45 ==
    script = "claude45" =>
        /\ DefaultCalls = <<>>
        /\ AllSelectorsFailed => (Len(calls) = Len(format_options) /\ ret = "False")

\* claude45: both selectors of a two-selector list failed.
C5_Witness ==
    /\ AllSelectorsFailed
    /\ script = "claude45"
    /\ Len(calls) >= 2
    /\ ret = "False"
    /\ exit_status = 1
    /\ pc = "exit"

(***************************************************************************)
(* Properties of interrupts, unexpected exceptions and failed listings     *)
(***************************************************************************)
\* Some download call of the run raised an unexpected (non-DownloadError)
\* Exception.
SomeCallRaisedUnexpected == \E i \in 1..Len(calls) : calls[i].outcome = "Exception"

\* C6: in every script a KeyboardInterrupt that arrives during
\* download_video ends the process with exit status 1.
C6_InterruptExitsOne ==
    (pc = "exit" /\ interrupted \in {"dv_start", "dv_loop", "dv_final", "yt_download"})
        => exit_status = 1

\* C7 as stated: a run in which some download call raised an unexpected
\* Exception ends with exit status 1, never 0.
C7_UnexpectedAlwaysExitsOne ==
    (pc = "exit" /\ SomeCallRaisedUnexpected) => exit_status = 1

\* C7, amended: an unexpected Exception raised by a download call fails that
\* attempt only.  A run whose last download call raised one exits with
\* status 1; a run in which some download call raised one exits with status
\* 0 only if a later download call of the run succeeded; in
\* get_yt-video-by-id.py such a run always exits with status 1.
C7_UnexpectedExitsOneUnlessLaterSuccess ==
    (pc = "exit" /\ SomeCallRaisedUnexpected) =>
        /\ calls[Len(calls)].outcome = "Exception" => exit_status = 1
        /\ exit_status = 0 =>
               \E i, j \in 1..Len(calls) :
                   /\ i < j
                   /\ calls[i].outcome = "Exception"
                   /\ calls[j].outcome = "ok"
        /\ script = "ytid" => exit_status = 1

\* get_ibm_yt-dlt.py: the first selector raised an unexpected Exception, a
\* later call succeeded and the run ended with status 0.
C7_Witness ==
    /\ pc = "exit"
    /\ script = "ibm"
    /\ calls # <<>>
    /\ calls[1].outcome = "Exception"
    /\ calls[Len(calls)].outcome = "ok"
    /\ exit_status = 0

\* C8: a run in --diagnostics or --list-formats mode whose URL the library
\* could not extract ends with exit status 1.
C8_FailedListingExitsOne ==
    (pc = "exit" /\ extract_failed) => exit_status = 1

(***************************************************************************)
(* Properties of get_yt-video-by-id.py's download_video                    *)
(***************************************************************************)
\* C9: get_yt-video-by-id.py's download_video makes exactly one library
\* download call per invocation, and the call's argument is the one-element
\* list of 'https://www.youtube.com/watch?v=' followed by the video id.
C9_OneCallWithWatchUrl ==
    script = "ytid" =>
        /\ Len(calls) <= 1
        /\ pc = "yt_ret" => Len(calls) = 1
        /\ \A i \in 1..Len(calls) :
               calls[i].urls = <<"https://www.youtube.com/watch?v=" \o args.target>>

\* download_video returned after its one call, which failed.
C9_Witness ==
    /\ script = "ytid"
    /\ pc = "yt_ret"
    /\ Len(calls) = 1
    /\ calls[1].outcome = "DownloadError"
    /\ args.target = "L7gv9aGB7VY"

\* C10: get_yt-video-by-id.py's download_video returns True exactly when
\* its download call raised nothing, returns False when the call raised
\* DownloadError or any other Exception, and lets no Exception out: after
\* such a call it has returned.
C10_BooleanResult ==
    (script = "ytid" /\ calls # <<>> /\ calls[1].outcome # "KeyboardInterrupt") =>
        /\ pc \in {"yt_ret", "exit"}
        /\ ret \in {"True", "False"}
        /\ ret = "True" <=> calls[1].outcome = "ok"
        /\ calls[1].outcome \in {"DownloadError", "Exception"} => ret = "False"

\* The download call raised an unexpected Exception and download_video
\* returned False.
C10_Witness ==
    /\ script = "ytid"
    /\ pc = "yt_ret"
    /\ calls # <<>>
    /\ calls[1].outcome = "Exception"
    /\ ret = "False"

(***************************************************************************)
(* Properties of get_yt-video-by-id.py's table, selector and options       *)
(***************************************************************************)
\* p occurs in s at position i.
OccursAt(s, p, i) == i + Len(p) - 1 <= Len(s) /\ SubSeq(s, i, i + Len(p) - 1) = p

\* The positions at which p occurs in s.
Positions(s, p) == {i \in 1..Len(s) : OccursAt(s, p, i)}

\* C11: RESOLUTION_LIMITS holds, for the nine (quality, size) pairs over
\* low, medium, high: (low,low)=360, (low,medium)=480, (low,high)=720,
\* (medium,low)=480, (medium,medium)=720, (medium,high)=1080,
\* (high,low)=720, (high,medium)=1080 and (high,high)=None, no limit.
C11_ResolutionLimitsTable ==
    (args.quality \in Levels /\ args.size \in Levels) =>
        LET limit == ResolutionLimit(args.quality, args.size)
            pair  == <<args.quality, args.size>>
        IN  /\ pair = <<"low", "low">>       => limit = 360
            /\ pair = <<"low", "medium">>    => limit = 480
            /\ pair = <<"low", "high">>      => limit = 720
            /\ pair = <<"medium", "low">>    => limit = 480
            /\ pair = <<"medium", "medium">> => limit = 720
            /\ pair = <<"medium", "high">>   => limit = 1080
            /\ pair = <<"high", "low">>      => limit = 720
            /\ pair = <<"high", "medium">>   => limit = 1080
            /\ pair = <<"high", "high">>     => limit = NoLimit /\ limit \notin {360, 480, 720, 1080}

\* download_video was called with (medium, high) and made its call.
C11_Witness ==
    /\ args.quality = "medium"
    /\ args.size = "high"
    /\ calls # <<>>
    /\ ResolutionLimit(args.quality, args.size) = 1080

\* The selectors the download calls of get_yt-video-by-id.py were given.
SelectorsUsed == {calls[i].opts.format : i \in 1..Len(calls)}

\* C12: for every (quality, size), when the table gives a number N the
\* selector get_format_selector returns has at least one 'height<='
\* constraint and each of them is 'height<=N]' with that N; when the table
\* gives None (high, high) the selector has no 'height<=' constraint.
C12_HeightConstraintMatchesTable ==
    script = "ytid" =>
        \A sel \in SelectorsUsed :
            LET limit == ResolutionLimit(args.quality, args.size)
                at    == Positions(sel, "height<=")
            IN  IF limit = NoLimit
                THEN at = {}
                ELSE /\ at # {}
                     /\ \A i \in at : OccursAt(sel, "height<=" \o ToString(limit) \o "]", i)

\* The selector of (high, medium) was passed on: it limits the height to 1080.
C12_Witness ==
    /\ script = "ytid"
    /\ args.quality = "high"
    /\ args.size = "medium"
    /\ calls # <<>>
    /\ Cardinality(Positions(calls[1].opts.format, "height<=1080]")) = 4

\* The selector of (high, high) was passed on: it has no height constraint.
C12_WitnessNoLimit ==
    /\ script = "ytid"
    /\ args.quality = "high"
    /\ args.size = "high"
    /\ calls # <<>>
    /\ Positions(calls[1].opts.format, "height") = {}

\* C13: for every (quality, size), pairs outside the table included (they
\* get the 720 limit), the selector has at least two alternatives separated
\* by '/', its last alternative is the plain 'best', and it contains
\* 'ext=mp4' and 'bestaudio'.
C13_SelectorHasFallbacks ==
    script = "ytid" =>
        \A sel \in SelectorsUsed :
            LET slashes == Positions(sel, "/")
            IN  /\ slashes # {}
                /\ \E last \in slashes :
                       /\ \A i \in slashes : i <= last
                       /\ SubSeq(sel, last + 1, Len(sel)) = "best"
                /\ Positions(sel, "ext=mp4") # {}
                /\ Positions(sel, "bestaudio") # {}
                /\ (args.quality \notin Levels \/ args.size \notin Levels)
                       => Positions(sel, "height<=720]") # {}

\* download_video was called with a pair outside the table and made its call.
C13_Witness ==
    /\ script = "ytid"
    /\ args.quality = "ultra"
    /\ args.size = "low"
    /\ calls # <<>>
    /\ Cardinality(Positions(calls[1].opts.format, "/")) = 6

\* C14: the options get_yt-video-by-id.py's download_video passes to the
\* library have 'format' equal to get_format_selector(quality, size),
\* 'subtitleslangs' equal to the one-element list of the language, and a
\* 'cookiesfrombrowser' key exactly when use_cookies is true.
C14_OptionsFollowArguments ==
    script = "ytid" =>
        \A i \in 1..Len(calls) :
            LET opts == calls[i].opts
            IN  /\ opts.format = GetFormatSelector(args.quality, args.size)
                /\ opts.subtitleslangs = <<args.language>>
                /\ ("cookiesfrombrowser" \in DOMAIN opts) <=> args.cookies

\* A call with cookies and Spanish subtitles at (medium, medium).
C14_Witness ==
    /\ script = "ytid"
    /\ args.cookies
    /\ args.language = "es"
    /\ args.quality = "medium"
    /\ args.size = "medium"
    /\ calls # <<>>
    /\ "cookiesfrombrowser" \in DOMAIN calls[1].opts
    /\ calls[1].opts.subtitleslangs = <<"es">>

(***************************************************************************)
(* Properties of the steps around the download                             *)
(***************************************************************************)
\* C15: download_video creates the output directory before the library is
\* invoked: once a download call was made or download_video returned, the
\* directory exists, whether the download succeeded or failed and whether
\* or not the directory existed before.
C15_OutputDirCreated ==
    (calls # <<>> \/ ret # "none" \/ pc \in {"dv_loop", "dv_final", "yt_download"})
        => output_dir

\* get_yt-video-by-id.py: the download failed; the directory exists.
C15_Witness ==
    /\ script = "ytid"
    /\ pc = "yt_ret"
    /\ ret = "False"
    /\ calls # <<>>
    /\ output_dir

\* C16: in the IBM scripts every library download call is made after
\* run_diagnostic_tests has returned inside download_video: a step that
\* makes a download call starts in the retry loop or at the final fallback,
\* never before or during the probe.
C16_ProbeBeforeDownload ==
    [][(script \in IbmScripts /\ calls' # calls) => pc \in {"dv_loop", "dv_final"}]_vars

\* gpt5: the probe found the formats and a download call was made.
C16_Witness ==
    /\ script = "gpt5"
    /\ calls # <<>>
    /\ formats # <<>>
    /\ diagnostics.url_accessible
    /\ diagnostics.format_count = Len(formats)

\* C17: every run of an IBM script in which download_video was called and
\* returned has written the JSON report under <output_dir>/logs/ when the
\* process exits, whether download_video returned True or False.
C17_ReportAlwaysWritten ==
    (script \in IbmScripts /\ pc = "exit" /\ ret # "none") => report_written

\* C18: in --diagnostics, --list-formats and --info-only modes main returns
\* before the download step: no library download call is made, download_video
\* is not entered and no report is written.  With several mode flags,
\* --diagnostics wins over --list-formats and both win over --info-only: a
\* run with --diagnostics ends having run the diagnostics (their record is
\* stored exactly when the URL could be extracted), and a run with
\* --diagnostics or --list-formats never gets to get_video_info.
C18_ModesSkipDownload ==
    /\ (script \in IbmScripts /\ (args.diagnostics \/ args.list_formats \/ args.info_only)) =>
           /\ calls = <<>>
           /\ ~report_written
           /\ ret = "none"
           /\ pc \in {"main", "info", "exit"}
    /\ (script = "ytid" /\ args.list_formats) =>
           /\ calls = <<>>
           /\ ~report_written
           /\ pc \in {"main", "exit"}
    /\ (script \in IbmScripts /\ args.diagnostics /\ pc = "exit" /\ interrupted = "none") =>
           ((diagnostic_data # <<>>) <=> ~extract_failed)
    /\ (script \in IbmScripts /\ (args.diagnostics \/ args.list_formats)) => pc # "info"

\* All three mode flags were given; the run ended as a diagnostics run.
C18_Witness ==
    /\ script = "ibm"
    /\ args.diagnostics /\ args.list_formats /\ args.info_only
    /\ pc = "exit"
    /\ interrupted = "none"
    /\ diagnostic_data # <<>>
    /\ calls = <<>>
    /\ exit_status = 0

(***************************************************************************)
(* Properties of download_video's early return and of the retry loop       *)
(***************************************************************************)
\* C19: in the three IBM scripts, when the diagnostics probe inside
\* download_video reports the URL as not accessible, download_video returns
\* False and no library download call is made: no selector is tried and the
\* final fallback does not run.
C19_NotAccessibleNoDownload ==
    /\ (script \in IbmScripts /\ ret # "none" /\ ~diagnostics.url_accessible) =>
           /\ ret = "False"
           /\ calls = <<>>
           /\ format_options = <<>>
    /\ (script \in IbmScripts /\ calls # <<>>) => diagnostics.url_accessible

\* gpt5: the probe failed although formats exist; download_video returned
\* False and the run ended with status 1.
C19_Witness ==
    /\ script = "gpt5"
    /\ formats # <<>>
    /\ pc = "exit"
    /\ ret = "False"
    /\ ~diagnostics.url_accessible
    /\ calls = <<>>
    /\ exit_status = 1

\* The loop calls that failed: they raised DownloadError or another Exception.
FailedLoopCalls ==
    {i \in 1..Len(LoopCalls) : LoopCalls[i].outcome \in {"DownloadError", "Exception"}}

\* C20: in the IBM scripts' retry loop no failure of a selector, whether a
\* DownloadError or any other Exception, aborts the loop: while the loop
\* runs every call so far failed and the next selector of the list is the
\* one to be tried; the loop is left only after a successful call or after
\* the last selector.  In gpt5 every failed selector has added exactly one
\* entry to fail_reasons, in order.
C20_FailuresNeverAbortLoop ==
    script \in IbmScripts =>
        /\ pc = "dv_loop" =>
               /\ idx = Len(LoopCalls) + 1
               /\ idx <= Len(format_options)
               /\ FailedLoopCalls = 1..Len(LoopCalls)
        /\ (pc \in {"dv_final", "dv_ret", "exit"} /\ interrupted = "none"
                /\ format_options # <<>>) =>
               /\ LoopCalls # <<>>
               /\ \/ LoopCalls[Len(LoopCalls)].outcome = "ok"
                  \/ Len(LoopCalls) = Len(format_options)
        /\ script = "gpt5" =>
               /\ Len(fail_reasons) = Cardinality(FailedLoopCalls)
               /\ \A i \in 1..Len(fail_reasons) : fail_reasons[i] = LoopCalls[i].opts.format
        /\ script # "gpt5" => fail_reasons = <<>>

\* gpt5: an unexpected Exception, then a DownloadError, then a success on
\* the third selector.
C20_Witness ==
    /\ script = "gpt5"
    /\ Len(calls) = 3
    /\ calls[1].outcome = "Exception"
    /\ calls[2].outcome = "DownloadError"
    /\ calls[3].outcome = "ok"
    /\ Len(fail_reasons) = 2
    /\ ret = "True"

(***************************************************************************)
(* Properties of the claude45 variant's selectors and diagnostics          *)
(***************************************************************************)
\* The ids of the reported HLS formats that carry video only.
VideoOnlyIds ==
    {formats[i].id : i \in {j \in 1..Len(formats) :
        /\ StartsWith(formats[j].id, "hls-")
        /\ formats[j].height # 0
        /\ formats[j].vcodec # "none"
        /\ formats[j].acodec = "none"}}

\* The ids of the reported HLS formats that carry audio only.
AudioOnlyIds ==
    {formats[i].id : i \in {j \in 1..Len(formats) :
        /\ StartsWith(formats[j].id, "hls-")
        /\ formats[j].vcodec = "none"
        /\ formats[j].acodec # "none"}}

\* The selectors '<video-only id>+<audio-only id>'.
PairSelectors == {v \o "+" \o a : v \in VideoOnlyIds, a \in AudioOnlyIds}

\* C21: in claude45, when the diagnostics of download_video report
\* separated HLS streams, every selector passed to a download call is
\* '<video-only id>+<audio-only id>' and none is a generic selector, also
\* when the probe found that generic 'best' works (fallback_safe).
C21_SeparatedHlsOnlyPairs ==
    (script = "claude45" /\ diagnostics.hls_separated_streams) =>
        /\ \A i \in 1..Len(format_options) : format_options[i] \in PairSelectors
        /\ \A i \in 1..Len(calls) :
               /\ calls[i].opts.format \in PairSelectors
               /\ calls[i].opts.format \notin
                      {"best", "best+bestaudio/best", "best[ext=mp4]+bestaudio[ext=mp4]/best"}

\* Separated streams, generic 'best' found working by the probe, and the
\* one pair selector was tried and failed.
C21_Witness ==
    /\ script = "claude45"
    /\ diagnostics.hls_separated_streams
    /\ diagnostics.fallback_safe
    /\ calls # <<>>
    /\ calls[1].outcome = "DownloadError"
    /\ pc = "exit"

BestTestWorked ==
    \E i \in 1..Len(probe_tests) : probe_tests[i].format = "best" /\ probe_tests[i].ok

\* C22 as stated: the record download_video gets from the claude45 probe
\* never has hls_separated_streams and fallback_safe both true.
C22_NeverSeparatedAndSafe ==
    script = "claude45" =>
        ~(diagnostics.hls_separated_streams /\ diagnostics.fallback_safe)

\* C22, amended: the format analysis marks separated HLS streams as not
\* safe for generic selectors, but test 4 then overwrites the flag with
\* the outcome of a simulated extraction with 'best': the record the
\* claude45 probe returns for separated streams has fallback_safe true
\* exactly when that simulated extraction succeeded.
C22_SeparatedSafeIffBestWorked ==
    (script = "claude45" /\ diagnostics.hls_separated_streams) =>
        /\ \E i \in 1..Len(probe_tests) : probe_tests[i].format = "best"
        /\ diagnostics.fallback_safe <=> BestTestWorked

C22_Witness ==
    /\ script = "claude45" /\ diagnostics.hls_separated_streams
    /\ diagnostics.fallback_safe /\ BestTestWorked
    /\ pc = "dv_loop"

C22_WitnessNotSafe ==
    /\ script = "claude45" /\ diagnostics.hls_separated_streams
    /\ ~diagnostics.fallback_safe /\ ~BestTestWorked
    /\ pc = "dv_loop"

\* The probe found formats but no selector qualifies: nothing passed the
\* test, the streams are not separated and generic selectors are not safe.
NoSelectorQualifies ==
    /\ diagnostics.tested_working_format = None
    /\ ~diagnostics.hls_separated_streams
    /\ ~diagnostics.fallback_safe

\* C23: in the claude45 variant a library download call is made only when
\* the diagnostics report url_accessible and format_detection and the
\* selector list is non-empty; when download_video has returned and no
\* formats were detected or no selector qualified, it returned False and
\* made no download call.
C23_CallsNeedFormatsAndSelectors ==
    script = "claude45" =>
        /\ calls # <<>> =>
               /\ diagnostics.url_accessible /\ diagnostics.format_detection
               /\ format_options # <<>>
        /\ (ret # "none" /\ (~diagnostics.format_detection \/ format_options = <<>>
                               \/ NoSelectorQualifies)) =>
               ret = "False" /\ calls = <<>>

C23_Witness ==
    /\ script = "claude45" /\ pc = "exit" /\ ret = "False" /\ calls = <<>>
    /\ diagnostics.format_detection /\ diagnostics.hls_detected
    /\ diagnostics.recommended_format # None /\ NoSelectorQualifies
    /\ format_options = <<>>

C23_WitnessNoFormats ==
    /\ script = "claude45" /\ pc = "exit" /\ ret = "False" /\ calls = <<>>
    /\ diagnostics.url_accessible /\ ~diagnostics.format_detection

(***************************************************************************)
(* Properties of the probe's record and of the computed selector           *)
(***************************************************************************)

\* C24: in get_ibm_yt-dlt.py, whenever the diagnostics recommend a format,
\* its id heads download_video's selector list and is the selector of the
\* first download call, also when several HLS video formats share the
\* greatest height.
C24_RecommendedTriedFirst ==
    (script = "ibm" /\ diagnostics.recommended_format # None) =>
        /\ format_options # <<>> /\ format_options[1] = diagnostics.recommended_format
        /\ calls # <<>> => calls[1].opts.format = diagnostics.recommended_format

C24_Witness ==
    /\ script = "ibm" /\ Len(formats) = 2
    /\ IsHls("ibm", formats[1]) /\ IsHls("ibm", formats[2])
    /\ formats[1].id # formats[2].id
    /\ formats[1].height = 720 /\ formats[2].height = 720
    /\ diagnostics.recommended_format = formats[1].id
    /\ calls # <<>> /\ calls[1].opts.format = formats[1].id

\* The HLS formats of the listing that carry video and audio, video alone,
\* audio alone, read off the listing itself.
HlsCombined == SelectSeq(formats, LAMBDA f : IsHls(script, f) /\ f.vcodec # "none" /\ f.acodec # "none")
HlsVideoOnly == SelectSeq(formats, LAMBDA f : IsHls(script, f) /\ f.vcodec # "none" /\ f.acodec = "none")
HlsAudioOnly == SelectSeq(formats, LAMBDA f : IsHls(script, f) /\ f.vcodec = "none" /\ f.acodec # "none")

IsGreatest(f, s) == InSeq(f, s) /\ \A j \in 1..Len(s) : s[j].height <= f.height

\* What the priority of C25 makes of the listing.
FollowsPriority(rec) ==
    IF HlsCombined # <<>>
    THEN \E i \in 1..Len(HlsCombined) :
             IsGreatest(HlsCombined[i], HlsCombined) /\ rec = HlsCombined[i].id
    ELSE IF HlsVideoOnly # <<>> /\ HlsAudioOnly # <<>>
    THEN \E i \in 1..Len(HlsVideoOnly) :
             /\ IsGreatest(HlsVideoOnly[i], HlsVideoOnly)
             /\ rec = HlsVideoOnly[i].id \o "+" \o HlsAudioOnly[1].id
    ELSE IF HlsVideoOnly # <<>>
    THEN \E i \in 1..Len(HlsVideoOnly) :
             IsGreatest(HlsVideoOnly[i], HlsVideoOnly) /\ rec = HlsVideoOnly[i].id
    ELSE rec = None

C25_WitnessPair ==
    /\ script \in {"gpt5", "claude45"} /\ diagnostics.url_accessible
    /\ HlsCombined = <<>> /\ HlsVideoOnly # <<>> /\ HlsAudioOnly # <<>>
    /\ diagnostics.recommended_format = HlsVideoOnly[1].id \o "+" \o HlsAudioOnly[1].id

C25_WitnessVideoOnly ==
    /\ script \in {"gpt5", "claude45"} /\ diagnostics.url_accessible
    /\ Len(formats) = 2 /\ Len(HlsVideoOnly) = 2
    /\ HlsVideoOnly[1].height < HlsVideoOnly[2].height
    /\ diagnostics.recommended_format = HlsVideoOnly[2].id

\* sub in s, for strings.
Contains(s, sub) ==
    \E i \in 1..(Len(s) - Len(sub) + 1) : SubSeq(s, i, i + Len(sub) - 1) = sub

\* The listing is a non-HLS source with height information.
NonHlsWithHeights ==
    /\ formats # <<>>
    /\ \A i \in 1..Len(formats) : ~IsHls(script, formats[i])
    /\ \E i \in 1..Len(formats) : formats[i].height > 0

GreatestHeight ==
    CHOOSE h \in {formats[i].height : i \in 1..Len(formats)} :
        \A i \in 1..Len(formats) : formats[i].height <= h

RequestedHeight ==
    IF args.quality = "480p" THEN 480 ELSE IF args.quality = "720p" THEN 720 ELSE 1080

Occurs(e) == \E i \in 1..Len(formats) : formats[i].ext = e

\* The selector get_optimal_format_selector returned, when its probe and
\* its get_video_info call both got the listing.
SelectorReturned ==
    /\ pc = "selected" /\ diagnostics.url_accessible /\ ~extract_failed

\* C26: for a non-HLS listing with height information the selector
\* returned for quality 'Np' bounds the height by min(N, greatest height
\* listed), and for 'best' has no height bound; its extension filter is the
\* first of mp4, webm, mkv, flv that some listed format has, and it has no
\* extension filter when none of the four is listed.
C26_SelectorHeightAndExtension ==
    (SelectorReturned /\ NonHlsWithHeights) =>
        LET sel    == format_options[1]
            target == Min(RequestedHeight, GreatestHeight)
            ranked == <<"mp4", "webm", "mkv", "flv">>
        IN  /\ args.quality = "best" => ~Contains(sel, "height")
            /\ args.quality # "best" =>
                   /\ Contains(sel, "[height<=" \o ToString(target) \o "]")
                   /\ \A h \in {240, 360, 480, 720, 1080} \ {target} :
                          ~Contains(sel, "[height<=" \o ToString(h) \o "]")
            /\ \A k \in 1..4 :
                   (Occurs(ranked[k]) /\ \A j \in 1..(k - 1) : ~Occurs(ranked[j])) =>
                       /\ Contains(sel, "[ext=" \o ranked[k] \o "]")
                       /\ \A j \in (1..4) \ {k} : ~Contains(sel, "[ext=" \o ranked[j] \o "]")
            /\ (\A k \in 1..4 : ~Occurs(ranked[k])) => ~Contains(sel, "ext")

\* The requested height is below the greatest one listed, and webm is
\* listed before mp4.
C26_Witness ==
    /\ SelectorReturned /\ NonHlsWithHeights
    /\ args.quality = "480p" /\ GreatestHeight = 1080
    /\ formats[1].ext = "webm" /\ Occurs("mp4")
    /\ Contains(format_options[1], "[height<=480][ext=mp4]")

C26_WitnessCapped ==
    /\ SelectorReturned /\ NonHlsWithHeights
    /\ args.quality = "720p" /\ GreatestHeight = 240 /\ ~Occurs("mp4")
    /\ format_options[1] \in {"best[height<=240]/best", "bestvideo[height<=240]+bestaudio/best"}

C26_WitnessBest ==
    /\ SelectorReturned /\ NonHlsWithHeights
    /\ args.quality = "best" /\ Occurs("flv") /\ ~Occurs("mp4") /\ ~Occurs("webm")
    /\ format_options[1] \in {"best[ext=flv]/best", "bestvideo[ext=flv]+bestaudio/best"}

\* The relations C27 states between the fields of one diagnostics record.
RecordConsistent(variant, r) ==
    /\ r.format_detection => r.url_accessible
    /\ r.hls_detected => r.format_detection
    /\ r.recommended_format # None => r.hls_detected
    /\ variant = "claude45" =>
           r.tested_working_format \in {None, r.recommended_format}

C27_WitnessNoHls ==
    /\ script \in {"ibm", "gpt5"} /\ diagnostic_data = <<diagnostics>>
    /\ diagnostics.format_detection /\ ~diagnostics.hls_detected
    /\ diagnostics.recommended_format = None

C27_WitnessTestFailed ==
    /\ script = "claude45" /\ diagnostic_data = <<diagnostics>>
    /\ diagnostics.recommended_format # None
    /\ diagnostics.tested_working_format = None

(***************************************************************************)
(* Properties of what the probe stores on the downloader                   *)
(***************************************************************************)

\* A stored record comes from a probe whose first extraction returned.
StoredFromSuccessfulProbe ==
    diagnostic_data # <<>> => diagnostic_data[1].url_accessible

\* C28: when the first extraction of download_video's probe fails, the
\* probe returns a fresh record with url_accessible false and leaves
\* diagnostic_data and optimal_format_found as they were, so what an
\* earlier successful probe stored stays; no probe ever stores the record
\* of a failed first extraction.
C28_FailedProbeKeepsStoredData ==
    [][ /\ (script \in IbmScripts /\ pc = "dv_start" /\ pc' = "dv_ret"
                /\ ~diagnostics'.url_accessible) =>
               /\ diagnostics' = InitialDiagnostics
               /\ diagnostic_data' = diagnostic_data
               /\ optimal_format_found' = optimal_format_found
        /\ StoredFromSuccessfulProbe' ]_vars

\* download_video's probe failed after main's probe had succeeded: the
\* object still holds the earlier record and the format it had verified.
C28_Witness ==
    /\ script = "claude45" /\ pc = "dv_ret" /\ ret = "False"
    /\ diagnostics = InitialDiagnostics
    /\ diagnostic_data # <<>> /\ diagnostic_data[1].url_accessible
    /\ diagnostic_data[1].recommended_format # None
    /\ optimal_format_found = diagnostic_data[1].tested_working_format
    /\ optimal_format_found # None

C28_WitnessIbm ==
    /\ script \in {"ibm", "gpt5"} /\ pc = "dv_ret" /\ ret = "False"
    /\ diagnostics = InitialDiagnostics
    /\ diagnostic_data # <<>> /\ diagnostic_data[1].format_detection

====
